---------------------------- MODULE Spec2Model ----------------------------
(***************************************************************************)
(* A model of the virtual-DOM diff engine of troy: the node model          *)
(* (vdom/element.rs, vdom/node.rs, vdom/text.rs), the patch-compression    *)
(* queue (utils/op_queue.rs) and the diff (vdom/diff.rs).                  *)
(*                                                                         *)
(* Option<T> is modelled as a sequence of length 0 (None) or 1 (Some(x)).  *)
(* Vec<T> is a sequence; Rust's 0-based indices are kept as the VALUES the *)
(* code produces (insert and move positions), and a 0-based index i reads  *)
(* element i + 1 of the sequence.  A panic of the code (unwrap of None,    *)
(* index out of bounds) is the distinguished result Panic.                 *)
(***************************************************************************)
EXTENDS Integers, Sequences, FiniteSets, TLC

None == <<>>
Some(x) == <<x>>
IsSome(o) == Len(o) = 1
Unwrap(o) == o[1]

Min2(a, b) == IF a < b THEN a ELSE b

(***************************************************************************)
(* Node model.                                                             *)
(***************************************************************************)
\* VElement::new(tag): no key, no attributes, no classes, no children.
VElement_new(tagname) ==
    [type |-> "Element", tag |-> tagname, key |-> None,
     attributes |-> {}, classes |-> {}, children |-> <<>>]

\* VElement::key(k)
WithKey(e, k) == [e EXCEPT !.key = Some(k)]

\* VElement::attr(name, value): HashMap::insert overwrites an existing name.
WithAttr(e, name, value) ==
    [e EXCEPT !.attributes =
        {a \in e.attributes : a[1] # name} \cup {<<name, value>>}]

\* VElement::class(name): HashSet::insert
WithClass(e, name) == [e EXCEPT !.classes = e.classes \cup {name}]

\* VElement::child(element): pushes element.done()
WithChild(e, c) == [e EXCEPT !.children = Append(e.children, c)]

\* VText::new(content).done()
VText_new(content) == [type |-> "Text", content |-> content]

\* VElement::text(t): pushes VNode::Text(VText::new(t))
WithText(e, content) == [e EXCEPT !.children = Append(e.children, VText_new(content))]

\* VNode::key: the element's key, None for a text node.
NodeKey(node) == IF node.type = "Element" THEN node.key ELSE None

\* HashMap::get on the attribute map
AttrGet(attributes, name) ==
    IF \E a \in attributes : a[1] = name
    THEN Some((CHOOSE a \in attributes : a[1] = name)[2])
    ELSE None

AttrKeys(attributes) == {a[1] : a \in attributes}

(***************************************************************************)
(* Patch algebra.                                                          *)
(***************************************************************************)
Skip(n) == [op |-> "Skip", n |-> n]
Remove(n) == [op |-> "Remove", n |-> n]
Move(i, a, c, ins) == [op |-> "Move", index |-> i, attr |-> a, children |-> c, inserts |-> ins]
Update(a, c, ins) == [op |-> "Update", attr |-> a, children |-> c, inserts |-> ins]
Replace(node) == [op |-> "Replace", node |-> node]
\* The code panicked: no NodeOp is returned.
Panic == [op |-> "Panic"]

InsertClassOp(c) == <<"InsertClass", c>>
RemoveClassOp(c) == <<"RemoveClass", c>>
AttrInsertOp(k, v) == <<"Insert", k, v>>
AttrUpdateOp(k, v) == <<"Update", k, v>>
AttrRemoveOp(k) == <<"Remove", k>>

(***************************************************************************)
(* Iteration order of a HashSet / HashMap: unspecified.  Strings are       *)
(* ranked by StrRank and a container is walked in ascending (h = 0) or     *)
(* descending (h = 1) rank.                                                *)
(***************************************************************************)
Strings == <<"a", "aaa", "b", "bbb", "c1", "c2", "c3", "c4", "id", "x", "y">>

StrRank(s) == CHOOSE i \in 1..Len(Strings) : Strings[i] = s

RECURSIVE IterOrder(_, _)
IterOrder(S, h) ==
    IF S = {} THEN <<>>
    ELSE LET first == CHOOSE s \in S : \A t \in S :
                          IF h = 0 THEN StrRank(s) <= StrRank(t)
                                   ELSE StrRank(s) >= StrRank(t)
         IN <<first>> \o IterOrder(S \ {first}, h)

(***************************************************************************)
(* OpQueue (utils/op_queue.rs).                                            *)
(***************************************************************************)
LastNone == [kind |-> "None", n |-> 0]
LastSkip(n) == [kind |-> "Skip", n |-> n]
LastRemove(n) == [kind |-> "Remove", n |-> n]

OpQueue_new == [last |-> LastNone, queue |-> <<>>]

\* push with the (Skip, Skip) and (Remove, Remove) arms flushing the pending
\* op instead of adding the counts.
push_unmerged(q, op) ==
    CASE q.last.kind = "None" /\ op.op = "Skip" ->
            [q EXCEPT !.last = LastSkip(op.n)]
      [] q.last.kind = "None" /\ op.op = "Remove" ->
            [q EXCEPT !.last = LastRemove(op.n)]
      [] q.last.kind = "None" /\ op.op \notin {"Skip", "Remove"} ->
            [q EXCEPT !.queue = Append(q.queue, op)]
      [] q.last.kind = "Skip" /\ op.op = "Skip" ->
            [last |-> LastSkip(op.n), queue |-> Append(q.queue, Skip(q.last.n))]
      [] q.last.kind = "Skip" /\ op.op = "Remove" ->
            [last |-> LastRemove(op.n), queue |-> Append(q.queue, Skip(q.last.n))]
      [] q.last.kind = "Skip" /\ op.op \notin {"Skip", "Remove"} ->
            [last |-> LastNone, queue |-> Append(Append(q.queue, Skip(q.last.n)), op)]
      [] q.last.kind = "Remove" /\ op.op = "Remove" ->
            [last |-> LastRemove(op.n), queue |-> Append(q.queue, Remove(q.last.n))]
      [] q.last.kind = "Remove" /\ op.op = "Skip" ->
            [last |-> LastSkip(op.n), queue |-> Append(q.queue, Remove(q.last.n))]
      [] q.last.kind = "Remove" /\ op.op \notin {"Skip", "Remove"} ->
            [last |-> LastNone, queue |-> Append(Append(q.queue, Remove(q.last.n)), op)]

\* push with the pending Skip or Remove written after the op that follows it.
push_late_flush(q, op) ==
    CASE q.last.kind = "None" /\ op.op = "Skip" ->
            [q EXCEPT !.last = LastSkip(op.n)]
      [] q.last.kind = "None" /\ op.op = "Remove" ->
            [q EXCEPT !.last = LastRemove(op.n)]
      [] q.last.kind = "None" /\ op.op \notin {"Skip", "Remove"} ->
            [q EXCEPT !.queue = Append(q.queue, op)]
      [] q.last.kind = "Skip" /\ op.op = "Skip" ->
            [q EXCEPT !.last = LastSkip(op.n + q.last.n)]
      [] q.last.kind = "Skip" /\ op.op = "Remove" ->
            [last |-> LastRemove(op.n), queue |-> Append(q.queue, Skip(q.last.n))]
      [] q.last.kind = "Skip" /\ op.op \notin {"Skip", "Remove"} ->
            [last |-> LastNone, queue |-> Append(Append(q.queue, op), Skip(q.last.n))]
      [] q.last.kind = "Remove" /\ op.op = "Remove" ->
            [q EXCEPT !.last = LastRemove(op.n + q.last.n)]
      [] q.last.kind = "Remove" /\ op.op = "Skip" ->
            [last |-> LastSkip(op.n), queue |-> Append(q.queue, Remove(q.last.n))]
      [] q.last.kind = "Remove" /\ op.op \notin {"Skip", "Remove"} ->
            [last |-> LastNone, queue |-> Append(Append(q.queue, op), Remove(q.last.n))]

\* push with the (Skip, Skip) and (Remove, Remove) arms keeping the count of
\* the op pushed and dropping the pending count.
push_last_count(q, op) ==
    CASE q.last.kind = "None" /\ op.op = "Skip" ->
            [q EXCEPT !.last = LastSkip(op.n)]
      [] q.last.kind = "None" /\ op.op = "Remove" ->
            [q EXCEPT !.last = LastRemove(op.n)]
      [] q.last.kind = "None" /\ op.op \notin {"Skip", "Remove"} ->
            [q EXCEPT !.queue = Append(q.queue, op)]
      [] q.last.kind = "Skip" /\ op.op = "Skip" ->
            [q EXCEPT !.last = LastSkip(op.n)]
      [] q.last.kind = "Skip" /\ op.op = "Remove" ->
            [last |-> LastRemove(op.n), queue |-> Append(q.queue, Skip(q.last.n))]
      [] q.last.kind = "Skip" /\ op.op \notin {"Skip", "Remove"} ->
            [last |-> LastNone, queue |-> Append(Append(q.queue, Skip(q.last.n)), op)]
      [] q.last.kind = "Remove" /\ op.op = "Remove" ->
            [q EXCEPT !.last = LastRemove(op.n)]
      [] q.last.kind = "Remove" /\ op.op = "Skip" ->
            [last |-> LastSkip(op.n), queue |-> Append(q.queue, Remove(q.last.n))]
      [] q.last.kind = "Remove" /\ op.op \notin {"Skip", "Remove"} ->
            [last |-> LastNone, queue |-> Append(Append(q.queue, Remove(q.last.n)), op)]

push(q, op) ==
    CASE q.last.kind = "None" /\ op.op = "Skip" ->
            [q EXCEPT !.last = LastSkip(op.n)]
      [] q.last.kind = "None" /\ op.op = "Remove" ->
            [q EXCEPT !.last = LastRemove(op.n)]
      [] q.last.kind = "None" /\ op.op \notin {"Skip", "Remove"} ->
            [q EXCEPT !.queue = Append(q.queue, op)]
      [] q.last.kind = "Skip" /\ op.op = "Skip" ->
            [q EXCEPT !.last = LastSkip(op.n + q.last.n)]
      [] q.last.kind = "Skip" /\ op.op = "Remove" ->
            [last |-> LastRemove(op.n), queue |-> Append(q.queue, Skip(q.last.n))]
      [] q.last.kind = "Skip" /\ op.op \notin {"Skip", "Remove"} ->
            [last |-> LastNone, queue |-> Append(Append(q.queue, Skip(q.last.n)), op)]
      [] q.last.kind = "Remove" /\ op.op = "Remove" ->
            [q EXCEPT !.last = LastRemove(op.n + q.last.n)]
      [] q.last.kind = "Remove" /\ op.op = "Skip" ->
            [last |-> LastSkip(op.n), queue |-> Append(q.queue, Remove(q.last.n))]
      [] q.last.kind = "Remove" /\ op.op \notin {"Skip", "Remove"} ->
            [last |-> LastNone, queue |-> Append(Append(q.queue, Remove(q.last.n)), op)]

\* remove_single_skip dropping a pending Skip whatever the queue holds.
remove_pending_skip(q) ==
    IF q.last.kind = "Skip" THEN [q EXCEPT !.last = LastNone] ELSE q

remove_single_skip(q) ==
    IF Len(q.queue) = 0 /\ q.last.kind = "Skip"
    THEN [q EXCEPT !.last = LastNone]
    ELSE q

\* done without the flush of the pending op.
done_unflushed(q) == q.queue

done(q) ==
    CASE q.last.kind = "Skip" -> Append(q.queue, Skip(q.last.n))
      [] q.last.kind = "Remove" -> Append(q.queue, Remove(q.last.n))
      [] q.last.kind = "None" -> q.queue

\* for op in ops { op_queue.push(op) }
RECURSIVE push_all(_, _)
push_all(q, ops) ==
    IF ops = <<>> THEN q ELSE push_all(push(q, Head(ops)), Tail(ops))

(***************************************************************************)
(* positions_lis (vdom/diff.rs).  m and p are vectors of length n; reading *)
(* or writing index n is out of bounds and panics.                         *)
(***************************************************************************)
\* The binary search `while lo <= hi { ... }`; returns the final lo.
RECURSIVE lis_search(_, _, _, _, _)
\* The body of the loop: `match positions[m[mid]]`.
RECURSIVE lis_probe(_, _, _, _, _, _)
lis_probe(positions, m, lo, hi, p_i, mid) ==
    IF IsSome(positions[m[mid + 1] + 1])
    THEN IF Unwrap(positions[m[mid + 1] + 1]) < p_i
         THEN lis_search(positions, m, mid + 1, hi, p_i)
         ELSE lis_search(positions, m, lo, mid - 1, p_i)
    ELSE lis_search(positions, m, mid + 1, hi, p_i)

lis_search(positions, m, lo, hi, p_i) ==
    IF lo <= hi
    THEN lis_probe(positions, m, lo, hi, p_i, (lo + hi) \div 2)
    ELSE lo

\* lis_step with `l = new_l` in place of `if new_l > l { l = new_l }`.
lis_step_last(n, i, st, new_l) ==
    IF new_l >= n
    THEN [st EXCEPT !.panic = TRUE]
    ELSE [m |-> [st.m EXCEPT ![new_l + 1] = i],
          p |-> [st.p EXCEPT ![i + 1] = st.m[new_l]],
          l |-> new_l,
          panic |-> FALSE]

\* One iteration of `for i in 0..n` with positions[i] defined, new_l being
\* the result of the binary search; st = [m, p, l, panic].
lis_step(n, i, st, new_l) ==
    IF new_l >= n
    THEN [st EXCEPT !.panic = TRUE]
    ELSE [m |-> [st.m EXCEPT ![new_l + 1] = i],
          p |-> [st.p EXCEPT ![i + 1] = st.m[new_l]],
          l |-> IF new_l > st.l THEN new_l ELSE st.l,
          panic |-> FALSE]

\* The loop `for i in 0..n` from iteration i on.
RECURSIVE lis_loop(_, _, _)
lis_loop(positions, i, st) ==
    IF i >= Len(positions) \/ st.panic THEN st
    ELSE IF IsSome(positions[i + 1])
         THEN lis_loop(positions, i + 1,
                  lis_step(Len(positions), i, st,
                      lis_search(positions, st.m, 1, st.l, Unwrap(positions[i + 1]))))
         ELSE lis_loop(positions, i + 1, st)

\* The loop `for i in (0..l).rev()` that rebuilds the subsequence.
RECURSIVE lis_rebuild(_, _, _, _, _)
lis_rebuild(positions, p, i, k, o) ==
    IF i < 0 THEN o
    ELSE lis_rebuild(positions, p, i - 1, p[k + 1],
                     [o EXCEPT ![i + 1] = Unwrap(positions[k + 1])])

\* positions_lis after the first loop, st being its result: `let mut k = m[l]`
\* is out of bounds when l = n.
lis_result(positions, st) ==
    IF st.panic \/ st.l >= Len(positions)
    THEN [panic |-> TRUE, o |-> <<>>]
    ELSE [panic |-> FALSE,
          o |-> lis_rebuild(positions, st.p, st.l - 1, st.m[st.l + 1],
                            [j \in 1..st.l |-> 0])]

\* Returns [panic |-> BOOLEAN, o |-> the vector of old indices].
positions_lis(positions) ==
    lis_result(positions,
        lis_loop(positions, 0,
            [m |-> [j \in 1..Len(positions) |-> 0],
             p |-> [j \in 1..Len(positions) |-> 0],
             l |-> 0, panic |-> FALSE]))

(***************************************************************************)
(* The diff (vdom/diff.rs).  h is the iteration order of the hash          *)
(* containers during this call.  A function of the code is written as a    *)
(* chain of operators, one per stage, each handing the values it computed   *)
(* to the next as parameters.                                               *)
(***************************************************************************)
RECURSIVE diff(_, _, _)

\* attr_op with the Update arm carrying the old value.
attr_op_old_value(key, o, n) ==
    IF IsSome(o) /\ ~IsSome(n) THEN <<AttrRemoveOp(key)>>
    ELSE IF ~IsSome(o) /\ IsSome(n) THEN <<AttrInsertOp(key, Unwrap(n))>>
    ELSE IF IsSome(o) /\ IsSome(n) /\ Unwrap(o) # Unwrap(n)
         THEN <<AttrUpdateOp(key, Unwrap(o))>>
    ELSE <<>>

\* One arm of `match (old_attributes.get(key), new_attributes.get(key))`.
attr_op(key, o, n) ==
    IF IsSome(o) /\ ~IsSome(n) THEN <<AttrRemoveOp(key)>>
    ELSE IF ~IsSome(o) /\ IsSome(n) THEN <<AttrInsertOp(key, Unwrap(n))>>
    ELSE IF IsSome(o) /\ IsSome(n) /\ Unwrap(o) # Unwrap(n)
         THEN <<AttrUpdateOp(key, Unwrap(n))>>
    ELSE <<>>

\* The `for key in keys { match ... }` loop over the union of attribute names.
RECURSIVE attr_ops(_, _, _)
attr_ops(keys, old_attributes, new_attributes) ==
    IF keys = <<>> THEN <<>>
    ELSE attr_op(Head(keys), AttrGet(old_attributes, Head(keys)),
                 AttrGet(new_attributes, Head(keys)))
         \o attr_ops(Tail(keys), old_attributes, new_attributes)

\* The classes of a difference, each mapped to its AttrOp.
class_ops(kind, names) == [i \in 1..Len(names) |-> <<kind, names[i]>>]

\* if attr_diff.len() > 0 { Some(attr_diff) } else { None }
attr_result(attr_diff) == IF Len(attr_diff) > 0 THEN Some(attr_diff) ELSE None

diff_attributes(old, new, h) ==
    attr_result(
        class_ops("RemoveClass", IterOrder(old.classes \ new.classes, h))
        \o class_ops("InsertClass", IterOrder(new.classes \ old.classes, h))
        \o attr_ops(IterOrder(AttrKeys(old.attributes) \cup AttrKeys(new.attributes), h),
                    old.attributes, new.attributes))

\* The prefix loop: counts matching keys from index i while i < max.
RECURSIVE prefix_loop(_, _, _, _)
prefix_loop(old_children, new_children, i, max_prefix_len) ==
    IF i < max_prefix_len
       /\ NodeKey(old_children[i + 1]) = NodeKey(new_children[i + 1])
    THEN prefix_loop(old_children, new_children, i + 1, max_prefix_len)
    ELSE i

\* suffix_loop bounded by the shorter list, not by what the prefix left.
RECURSIVE suffix_loop_uncapped(_, _, _, _)
suffix_loop_uncapped(old_children, new_children, i, max_suffix_len) ==
    IF i < Min2(Len(old_children), Len(new_children))
       /\ NodeKey(old_children[Len(old_children) - i])
            = NodeKey(new_children[Len(new_children) - i])
    THEN suffix_loop_uncapped(old_children, new_children, i + 1, max_suffix_len)
    ELSE i

\* The suffix loop: counts matching keys from the tails while i < max.
RECURSIVE suffix_loop(_, _, _, _)
suffix_loop(old_children, new_children, i, max_suffix_len) ==
    IF i < max_suffix_len
       /\ NodeKey(old_children[Len(old_children) - i])
            = NodeKey(new_children[Len(new_children) - i])
    THEN suffix_loop(old_children, new_children, i + 1, max_suffix_len)
    ELSE i

HasPanic(ops) == \E i \in 1..Len(ops) : ops[i].op = "Panic"

ChildPanic == [panic |-> TRUE, children |-> None, inserts |-> None]
ChildResult(c, ins) == [panic |-> FALSE, children |-> c, inserts |-> ins]
MiddlePanic == [panic |-> TRUE, op_queue |-> <<>>, inserts |-> <<>>]
MiddleResult(q, ins) == [panic |-> FALSE, op_queue |-> q, inserts |-> ins]

\* new_children_key_index.get(key): the map is filled in index order by
\* HashMap::insert, so the last child with the key wins.
key_index_get(new_children, key) ==
    LET found == {i \in 0..(Len(new_children) - 1) :
                     NodeKey(new_children[i + 1]) = Some(key)}
    IN IF found = {} THEN None
       ELSE Some(CHOOSE i \in found : \A j \in found : j <= i)

\* child.key().unwrap() panics for some child of the list.
UnwrapPanics(children) == \E i \in 1..Len(children) : NodeKey(children[i]) = None

\* scan_step without `if last_position > *position { moved = true }`.
scan_step_unmoved(st, index, position) ==
    IF IsSome(position)
    THEN [st EXCEPT !.last_position = Unwrap(position),
                    !.old_positions[Unwrap(position) + 1] = Some(index)]
    ELSE [st EXCEPT !.removed = st.removed + 1,
                    !.planned_ops[index + 1] = Remove(1)]

\* One iteration of the loop over old_children: the arm for `position`.
scan_step(st, index, position) ==
    IF IsSome(position)
    THEN [st EXCEPT !.moved = st.moved \/ st.last_position > Unwrap(position),
                    !.last_position = Unwrap(position),
                    !.old_positions[Unwrap(position) + 1] = Some(index)]
    ELSE [st EXCEPT !.removed = st.removed + 1,
                    !.planned_ops[index + 1] = Remove(1)]

\* The loop over old_children that fills old_positions, from `index` on;
\* st = [old_positions, last_position, moved, removed, planned_ops].
RECURSIVE scan_old(_, _, _, _)
scan_old(old_children, new_children, index, st) ==
    IF index >= Len(old_children) THEN st
    ELSE scan_old(old_children, new_children, index + 1,
             scan_step(st, index,
                 key_index_get(new_children, Unwrap(NodeKey(old_children[index + 1])))))

\* middle_inserts with the index in the middle, without the offset.
RECURSIVE middle_inserts_relative(_, _, _, _)
middle_inserts_relative(new_children, old_positions, offset, index) ==
    IF index >= Len(new_children) THEN <<>>
    ELSE (IF old_positions[index + 1] = None
          THEN <<<<index, new_children[index + 1]>>>>
          ELSE <<>>)
         \o middle_inserts_relative(new_children, old_positions, offset, index + 1)

\* middle_inserts walking the new children from the last to the first.
RECURSIVE middle_inserts_reversed(_, _, _, _)
middle_inserts_reversed(new_children, old_positions, offset, index) ==
    IF index >= Len(new_children) THEN <<>>
    ELSE middle_inserts_reversed(new_children, old_positions, offset, index + 1)
         \o (IF old_positions[index + 1] = None
             THEN <<<<offset + index, new_children[index + 1]>>>>
             ELSE <<>>)

\* The loop that inserts the new children no old child was found for.
RECURSIVE middle_inserts(_, _, _, _)
middle_inserts(new_children, old_positions, offset, index) ==
    IF index >= Len(new_children) THEN <<>>
    ELSE (IF old_positions[index + 1] = None
          THEN <<<<offset + index, new_children[index + 1]>>>>
          ELSE <<>>)
         \o middle_inserts(new_children, old_positions, offset, index + 1)

\* check_inserts comparing the lengths of the two middles, removed left out.
check_inserts_same_len(inserts, old_children, new_children, st, offset) ==
    IF Len(old_children) # Len(new_children)
    THEN inserts \o middle_inserts(new_children, st.old_positions, offset, 0)
    ELSE inserts

\* if (old_children.len() - removed) != new_children.len() { ... }
check_inserts(inserts, old_children, new_children, st, offset) ==
    IF (Len(old_children) - st.removed) # Len(new_children)
    THEN inserts \o middle_inserts(new_children, st.old_positions, offset, 0)
    ELSE inserts

\* move_op with every Move bare, whatever the diff of the child.
move_op_bare(position, d) ==
    IF d.op = "Panic" THEN Panic ELSE Move(position, None, None, None)

\* match diff { Update(a, u, i) => Move(.., a, u, i), _ => Move(.., None, None, None) }
move_op(position, d) ==
    IF d.op = "Panic" THEN Panic
    ELSE IF d.op = "Update" THEN Move(position, d.attr, d.children, d.inserts)
    ELSE Move(position, None, None, None)

\* Whether the current old child is the next one of the LIS.
in_lis(lis, lis_index, old_index) ==
    lis_index < Len(lis) /\ old_index = lis[lis_index + 1]

\* The planned op of an old child found at new_position, d being its diff.
planned_op(in, position, d) == IF in THEN d ELSE move_op(position, d)

\* The loop of the `if moved` branch, from old_index on.
RECURSIVE move_loop(_, _, _, _, _, _, _, _)
RECURSIVE move_found(_, _, _, _, _, _, _, _, _)
move_found(old_children, new_children, offset, lis, old_index, lis_index, planned_ops, h, new_position) ==
    move_loop(old_children, new_children, offset, lis, old_index + 1,
        IF in_lis(lis, lis_index, old_index) THEN lis_index + 1 ELSE lis_index,
        [planned_ops EXCEPT ![old_index + 1] =
            planned_op(in_lis(lis, lis_index, old_index), offset + new_position,
                diff(old_children[old_index + 1], new_children[new_position + 1], h))],
        h)

move_loop(old_children, new_children, offset, lis, old_index, lis_index, planned_ops, h) ==
    IF old_index >= Len(old_children) THEN planned_ops
    ELSE IF IsSome(key_index_get(new_children, Unwrap(NodeKey(old_children[old_index + 1]))))
         THEN move_found(old_children, new_children, offset, lis, old_index, lis_index,
                  planned_ops, h,
                  Unwrap(key_index_get(new_children,
                                       Unwrap(NodeKey(old_children[old_index + 1])))))
         ELSE move_loop(old_children, new_children, offset, lis, old_index + 1,
                  lis_index, planned_ops, h)

\* `for op in planned_ops { op_queue.push(op) }`, with the inserts.
middles_build(op_queue, inserts, planned_ops) ==
    IF HasPanic(planned_ops) THEN MiddlePanic
    ELSE MiddleResult(push_all(op_queue, planned_ops), inserts)

\* The `if moved` branch, lis being the result of positions_lis.
RECURSIVE middles_moved(_, _, _, _, _, _, _, _)
middles_moved(op_queue, inserts, offset, old_children, new_children, st, lis, h) ==
    IF lis.panic THEN MiddlePanic
    ELSE middles_build(op_queue, inserts,
             move_loop(old_children, new_children, offset, lis.o, 0, 0,
                       st.planned_ops, h))

\* middles_scanned with positions_lis called whether or not a child moved.
RECURSIVE middles_always_lis(_, _, _, _, _, _, _)
middles_always_lis(op_queue, inserts, offset, old_children, new_children, st, h) ==
    middles_moved(op_queue,
        check_inserts(inserts, old_children, new_children, st, offset),
        offset, old_children, new_children, st,
        positions_lis(st.old_positions), h)

\* diff_middles after the loop over old_children, st being its result.
RECURSIVE middles_scanned(_, _, _, _, _, _, _)
middles_scanned(op_queue, inserts, offset, old_children, new_children, st, h) ==
    IF st.moved
    THEN middles_moved(op_queue,
             check_inserts(inserts, old_children, new_children, st, offset),
             offset, old_children, new_children, st,
             positions_lis(st.old_positions), h)
    ELSE middles_build(op_queue,
             check_inserts(inserts, old_children, new_children, st, offset),
             st.planned_ops)

\* Returns [panic, op_queue, inserts].
RECURSIVE diff_middles(_, _, _, _, _, _)
diff_middles(op_queue, inserts, offset, old_children, new_children, h) ==
    IF UnwrapPanics(new_children) \/ UnwrapPanics(old_children)
    THEN MiddlePanic
    ELSE middles_scanned(op_queue, inserts, offset, old_children, new_children,
             scan_old(old_children, new_children, 0,
                 [old_positions |-> [j \in 1..Len(new_children) |-> None],
                  last_position |-> 0, moved |-> FALSE, removed |-> 0,
                  planned_ops |-> [j \in 1..Len(old_children) |-> Skip(1)]]),
             h)

\* children_middle with the Remove counting every old child, not the middle.
RECURSIVE children_middle_remove_all(_, _, _, _, _, _, _)
children_middle_remove_all(op_queue, old_children, new_children, prefix_len, old_middle_len, new_middle_len, h) ==
    IF old_middle_len = 0 /\ new_middle_len = 0
    THEN MiddleResult(op_queue, <<>>)
    ELSE IF new_middle_len = 0
    THEN MiddleResult(push(op_queue, Remove(Len(old_children))), <<>>)
    ELSE IF old_middle_len = 0
    THEN MiddleResult(op_queue,
             [j \in 1..new_middle_len |->
                 <<prefix_len + j - 1, new_children[prefix_len + j]>>])
    ELSE diff_middles(op_queue, <<>>, prefix_len,
             SubSeq(old_children, prefix_len + 1, prefix_len + old_middle_len),
             SubSeq(new_children, prefix_len + 1, prefix_len + new_middle_len),
             h)

\* children_middle with the inserts indexed within the middle.
RECURSIVE children_middle_insert_relative(_, _, _, _, _, _, _)
children_middle_insert_relative(op_queue, old_children, new_children, prefix_len, old_middle_len, new_middle_len, h) ==
    IF old_middle_len = 0 /\ new_middle_len = 0
    THEN MiddleResult(op_queue, <<>>)
    ELSE IF new_middle_len = 0
    THEN MiddleResult(push(op_queue, Remove(old_middle_len)), <<>>)
    ELSE IF old_middle_len = 0
    THEN MiddleResult(op_queue,
             [j \in 1..new_middle_len |->
                 <<j - 1, new_children[prefix_len + j]>>])
    ELSE diff_middles(op_queue, <<>>, prefix_len,
             SubSeq(old_children, prefix_len + 1, prefix_len + old_middle_len),
             SubSeq(new_children, prefix_len + 1, prefix_len + new_middle_len),
             h)

\* `match (old_middle_len, new_middle_len)`: the operations of the middle,
\* op_queue holding the operations of the prefix.
RECURSIVE children_middle(_, _, _, _, _, _, _)
children_middle(op_queue, old_children, new_children, prefix_len, old_middle_len, new_middle_len, h) ==
    IF old_middle_len = 0 /\ new_middle_len = 0
    THEN MiddleResult(op_queue, <<>>)
    ELSE IF new_middle_len = 0
    THEN MiddleResult(push(op_queue, Remove(old_middle_len)), <<>>)
    ELSE IF old_middle_len = 0
    THEN MiddleResult(op_queue,
             [j \in 1..new_middle_len |->
                 <<prefix_len + j - 1, new_children[prefix_len + j]>>])
    ELSE diff_middles(op_queue, <<>>, prefix_len,
             SubSeq(old_children, prefix_len + 1, prefix_len + old_middle_len),
             SubSeq(new_children, prefix_len + 1, prefix_len + new_middle_len),
             h)

\* `match (ops.len(), inserts.len())`
children_result(ops, inserts) ==
    IF Len(ops) = 0 /\ Len(inserts) = 0 THEN ChildResult(None, None)
    ELSE IF Len(ops) = 0 THEN ChildResult(None, Some(inserts))
    ELSE IF Len(inserts) = 0 THEN ChildResult(Some(ops), None)
    ELSE ChildResult(Some(ops), Some(inserts))

\* The pushes of the common suffix and the extraction of the operations.
children_finish(mid, suffix_ops) ==
    IF mid.panic \/ HasPanic(suffix_ops) THEN ChildPanic
    ELSE children_result(
             done(remove_single_skip(push_all(mid.op_queue, suffix_ops))),
             mid.inserts)

\* The pushes of the common prefix, then the middle and the suffix.
RECURSIVE children_ops(_, _, _, _, _, _)
children_ops(old_children, new_children, prefix_len, suffix_len, prefix_ops, h) ==
    IF HasPanic(prefix_ops) THEN ChildPanic
    ELSE children_finish(
             children_middle(push_all(OpQueue_new, prefix_ops),
                 old_children, new_children, prefix_len,
                 Len(old_children) - (prefix_len + suffix_len),
                 Len(new_children) - (prefix_len + suffix_len), h),
             [i \in 1..suffix_len |->
                 diff(old_children[Len(old_children) - suffix_len + i],
                      new_children[Len(new_children) - suffix_len + i], h)])

\* diff_children once prefix_len is known.
RECURSIVE children_trimmed(_, _, _, _, _)
children_trimmed(old_children, new_children, prefix_len, suffix_len, h) ==
    children_ops(old_children, new_children, prefix_len, suffix_len,
        [i \in 1..prefix_len |-> diff(old_children[i], new_children[i], h)], h)

RECURSIVE children_prefixed(_, _, _, _, _)
children_prefixed(old_children, new_children, max_prefix_len, prefix_len, h) ==
    children_trimmed(old_children, new_children, prefix_len,
        suffix_loop(old_children, new_children, 0, max_prefix_len - prefix_len), h)

RECURSIVE diff_children(_, _, _)
diff_children(old, new, h) ==
    IF Len(old.children) = 0 /\ Len(new.children) = 0 THEN ChildResult(None, None)
    ELSE IF Len(new.children) = 0
    THEN ChildResult(Some(<<Remove(Len(old.children))>>), None)
    ELSE IF Len(old.children) = 0
    THEN ChildResult(None,
             Some([i \in 1..Len(new.children) |-> <<i - 1, new.children[i]>>]))
    ELSE children_prefixed(old.children, new.children,
             Min2(Len(old.children), Len(new.children)),
             prefix_loop(old.children, new.children, 0,
                         Min2(Len(old.children), Len(new.children))), h)

\* node_op without the (None, None, None) arm.
node_op_update(attr_diff, cd) ==
    IF cd.panic THEN Panic
    ELSE Update(attr_diff, cd.children, cd.inserts)

\* `match (attr_diff, children_diff, children_inserts)`
node_op(attr_diff, cd) ==
    IF cd.panic THEN Panic
    ELSE IF attr_diff = None /\ cd.children = None /\ cd.inserts = None
    THEN Skip(1)
    ELSE Update(attr_diff, cd.children, cd.inserts)

\* diff without the comparison of the keys.
diff_any_key(old, new, h) ==
    IF old.type = "Element" /\ new.type = "Element"
    THEN IF old.tag # new.tag THEN Replace(new)
         ELSE node_op(diff_attributes(old, new, h), diff_children(old, new, h))
    ELSE Replace(new)

diff(old, new, h) ==
    IF old.type = "Element" /\ new.type = "Element"
    THEN IF old.tag # new.tag THEN Replace(new)
         ELSE IF old.key # new.key THEN Replace(new)
         ELSE node_op(diff_attributes(old, new, h), diff_children(old, new, h))
    ELSE Replace(new)

(***************************************************************************)
(* The state machine: a caller builds an old and a new tree with the       *)
(* builder of VElement (child, text), then calls diff once.                *)
(***************************************************************************)
VARIABLES old, new, pc, result, op_queue, pushed, out, element, positions, lis

vars == <<old, new, pc, result, op_queue, pushed, out, element, positions, lis>>

\* What a caller of diff leaves alone: the queue a test of OpQueue drives, the
\* ops it pushed, what done returned, and the element a builder chain holds.
others == <<op_queue, pushed, out, element, positions, lis>>

\* The largest number of children the caller gives a root.
MaxChildren == 4

HashOrders == {0, 1}

div == VElement_new("div")
p == VElement_new("p")

\* The children the caller may give the old root.
OldPool ==
    { WithAttr(WithKey(p, "c1"), "id", "x"),
      WithChild(WithChild(WithKey(p, "c2"), WithKey(p, "a")), WithKey(p, "b")),
      WithKey(p, "c3"),
      WithKey(p, "c4"),
      WithText(p, "x") }

\* The children the caller may give the new root: c1 with two more classes and
\* another attribute value, c2 with its children swapped, c3 unchanged, c4 with
\* another tag, and the same unkeyed element with the same text.
NewPool ==
    { WithClass(WithClass(WithAttr(WithKey(p, "c1"), "id", "y"), "aaa"), "bbb"),
      WithChild(WithChild(WithKey(p, "c2"), WithKey(p, "b")), WithKey(p, "a")),
      WithKey(p, "c3"),
      WithKey(div, "c4"),
      WithText(p, "x") }

\* The roots the caller starts from: div().done() or text(..).done().
OldRoots == {div, VText_new("x")}
NewRoots == {div, VText_new("x"), VText_new("y")}

NoResult == [op |-> "None"]

Init ==
    /\ old \in OldRoots
    /\ new \in NewRoots
    /\ pc = "build"
    /\ result = NoResult
    /\ op_queue = OpQueue_new
    /\ pushed = <<>>
    /\ out = None
    /\ positions = <<>>
    /\ lis = None
    /\ element = None

\* old = old.child(c): the caller never repeats a child under one parent.
OldChild ==
    /\ pc = "build"
    /\ old.type = "Element"
    /\ Len(old.children) < MaxChildren
    /\ \E c \in OldPool :
          /\ \A i \in 1..Len(old.children) : old.children[i] # c
          /\ old' = WithChild(old, c)
    /\ UNCHANGED <<new, pc, result, others>>

\* new = new.child(c)
NewChild ==
    /\ pc = "build"
    /\ new.type = "Element"
    /\ Len(new.children) < MaxChildren
    /\ \E c \in NewPool :
          /\ \A i \in 1..Len(new.children) : new.children[i] # c
          /\ new' = WithChild(new, c)
    /\ UNCHANGED <<old, pc, result, others>>

\* result = diff(&old, &new)
Diff ==
    /\ pc = "build"
    /\ \E h \in HashOrders : result' = diff(old, new, h)
    /\ pc' = "done"
    /\ UNCHANGED <<old, new, others>>

Next == OldChild \/ NewChild \/ Diff

Spec == Init /\ [][Next]_vars

(***************************************************************************)
(* A caller of OpQueue (the tests of utils/op_queue.rs): OpQueue::new(),   *)
(* some pushes, then done() or remove_single_skip().done().  pushed is the *)
(* history of the ops pushed.                                              *)
(***************************************************************************)
\* The largest number of pushes.
MaxPushes == 4

\* The ops pushed.
PushOps ==
    { Skip(1), Skip(2), Remove(1), Remove(2),
      Replace(VText_new("x")),
      Update(Some(<<InsertClassOp("aaa")>>), None, None),
      Move(0, None, None, None) }

QueueInit ==
    /\ old = div
    /\ new = div
    /\ pc = "push"
    /\ result = NoResult
    /\ op_queue = OpQueue_new
    /\ pushed = <<>>
    /\ out = None
    /\ positions = <<>>
    /\ lis = None
    /\ element = None

\* queue.push(op)
Push ==
    /\ pc = "push"
    /\ Len(pushed) < MaxPushes
    /\ \E op \in PushOps :
          /\ op_queue' = push(op_queue, op)
          /\ pushed' = Append(pushed, op)
    /\ UNCHANGED <<old, new, pc, result, out, element, positions, lis>>

\* queue.remove_single_skip()
RemoveSingleSkip ==
    /\ pc = "push"
    /\ op_queue' = remove_single_skip(op_queue)
    /\ pc' = "stripped"
    /\ UNCHANGED <<old, new, result, pushed, out, element, positions, lis>>

\* queue.done(), straight after the pushes or after remove_single_skip()
Done ==
    /\ pc \in {"push", "stripped"}
    /\ out' = Some(done(op_queue))
    /\ pc' = IF pc = "push" THEN "flushed" ELSE "stripped_flushed"
    /\ UNCHANGED <<old, new, result, op_queue, pushed, element, positions, lis>>

QueueNext == Push \/ RemoveSingleSkip \/ Done

QueueSpec == QueueInit /\ [][QueueNext]_vars

(***************************************************************************)
(* What the claims speak of, stated without the operators of the diff.     *)
(***************************************************************************)
Range(f) == {f[i] : i \in DOMAIN f}

\* Sibling keys are unique, at every depth.
RECURSIVE UniqueSiblingKeys(_)
UniqueSiblingKeys(node) ==
    node.type = "Element" =>
        /\ \A i, j \in 1..Len(node.children) :
              (i # j /\ NodeKey(node.children[i]) # None)
                  => NodeKey(node.children[i]) # NodeKey(node.children[j])
        /\ \A i \in 1..Len(node.children) : UniqueSiblingKeys(node.children[i])

Returned == pc = "done" /\ result.op # "Panic"

ValidInput == UniqueSiblingKeys(old) /\ UniqueSiblingKeys(new)

\* A ChildDiff with each Skip(n) and Remove(n) written as n ops of count 1:
\* one op per old child when the ops are aligned with the old children.
RECURSIVE UnitOps(_)
UnitOps(ops) ==
    IF Len(ops) = 0 THEN <<>>
    ELSE (IF Head(ops).op \in {"Skip", "Remove"}
          THEN [i \in 1..Head(ops).n |-> [op |-> Head(ops).op, n |-> 1]]
          ELSE <<Head(ops)>>) \o UnitOps(Tail(ops))

\* The length of the longest run of equal keys from the heads.
AlignedPrefix(oc, nc) ==
    CHOOSE k \in 0..Min2(Len(oc), Len(nc)) :
        /\ \A i \in 1..k : NodeKey(oc[i]) = NodeKey(nc[i])
        /\ k < Min2(Len(oc), Len(nc)) => NodeKey(oc[k + 1]) # NodeKey(nc[k + 1])

\* The length of the longest run of equal keys from the tails that does not
\* overlap the prefix.
AlignedSuffix(oc, nc) ==
    LET cap == Min2(Len(oc), Len(nc)) - AlignedPrefix(oc, nc)
    IN CHOOSE k \in 0..cap :
        /\ \A i \in 0..(k - 1) : NodeKey(oc[Len(oc) - i]) = NodeKey(nc[Len(nc) - i])
        /\ k < cap => NodeKey(oc[Len(oc) - k]) # NodeKey(nc[Len(nc) - k])

\* The indices (from 1) of the old and of the new middle.
OldMiddle(oc, nc) == (AlignedPrefix(oc, nc) + 1)..(Len(oc) - AlignedSuffix(oc, nc))
NewMiddle(oc, nc) == (AlignedPrefix(oc, nc) + 1)..(Len(nc) - AlignedSuffix(oc, nc))

\* The index (from 1) of the new child that old child i is aligned with: the
\* child at the same place of the common prefix or suffix, or the child of the
\* new middle with the same key; 0 when there is none.
Partner(oc, nc, i) ==
    IF i \notin OldMiddle(oc, nc)
    THEN IF i <= AlignedPrefix(oc, nc) THEN i ELSE Len(nc) - (Len(oc) - i)
    ELSE IF NodeKey(oc[i]) # None
            /\ \E j \in NewMiddle(oc, nc) : NodeKey(nc[j]) = NodeKey(oc[i])
         THEN CHOOSE j \in NewMiddle(oc, nc) : NodeKey(nc[j]) = NodeKey(oc[i])
         ELSE 0

\* Every pair of children lists that an Update or a Move of the patch speaks of,
\* with the ChildDiff and the Inserts it carries for them, at any depth.
RECURSIVE Contexts(_, _, _)
Contexts(o, n, op) ==
    IF op.op \in {"Update", "Move"} /\ o.type = "Element" /\ n.type = "Element"
    THEN {[oldc |-> o.children, newc |-> n.children,
           children |-> op.children, inserts |-> op.inserts]}
         \cup (IF op.children = None THEN {}
               ELSE LET u == UnitOps(Unwrap(op.children))
                        nested == {i \in 1..Min2(Len(u), Len(o.children)) :
                                     /\ u[i].op \in {"Update", "Move"}
                                     /\ Partner(o.children, n.children, i) # 0}
                    IN UNION {Contexts(o.children[i],
                                  n.children[Partner(o.children, n.children, i)],
                                  u[i]) : i \in nested})
    ELSE {}

\* The contexts of the patch diff returned.
Produced == IF Returned THEN Contexts(old, new, result) ELSE {}

\* Those that carry a ChildDiff, with its ops written one per old child.
Aligned(c) == c.children # None /\ Len(UnitOps(Unwrap(c.children))) = Len(c.oldc)
Units(c) == UnitOps(Unwrap(c.children))

\* The keyed reconciler ran on the middles of c.
KeyedMiddle(c) == OldMiddle(c.oldc, c.newc) # {} /\ NewMiddle(c.oldc, c.newc) # {}

\* The old middle children whose key occurs in the new middle.
Survivors(c) == {i \in OldMiddle(c.oldc, c.newc) : Partner(c.oldc, c.newc, i) # 0}

\* The old children of T keep their relative order in the new list.
InOrder(c, T) ==
    \A i, j \in T : i < j => Partner(c.oldc, c.newc, i) < Partner(c.oldc, c.newc, j)

\* The length of a longest increasing subsequence of the survivors' old
\* indices read in new order, by enumeration.
LongestInOrder(c) ==
    LET sizes == {Cardinality(T) : T \in {U \in SUBSET Survivors(c) : InOrder(c, U)}}
    IN CHOOSE k \in sizes : \A j \in sizes : j <= k

Moves(c) == {i \in OldMiddle(c.oldc, c.newc) : Units(c)[i].op = "Move"}

(***************************************************************************)
(* The renderer's semantics of a patch (spec, section 6).                  *)
(***************************************************************************)
Invalid == [type |-> "Invalid"]

ApplyAttrs(e, ad) ==
    IF ad = None THEN e
    ELSE LET ops == Range(Unwrap(ad))
             gone == {a[2] : a \in {x \in ops : x[1] \in {"Remove", "Insert", "Update"}}}
             set == {<<a[2], a[3]>> : a \in {x \in ops : x[1] \in {"Insert", "Update"}}}
         IN [e EXCEPT
               !.classes = (e.classes \ {a[2] : a \in {x \in ops : x[1] = "RemoveClass"}})
                              \cup {a[2] : a \in {x \in ops : x[1] = "InsertClass"}},
               !.attributes = {a \in e.attributes : a[1] \notin gone} \cup set]

RECURSIVE ApplyNode(_, _)
RECURSIVE ApplyChildren(_, _, _)

ApplyNode(o, op) ==
    IF op.op = "Skip" THEN o
    ELSE IF op.op = "Replace" THEN op.node
    ELSE IF op.op \in {"Update", "Move"} /\ o.type = "Element"
    THEN [ApplyAttrs(o, op.attr) EXCEPT
             !.children = ApplyChildren(o.children, op.children, op.inserts)]
    ELSE Invalid

\* Skip keeps, Remove deletes, Update and Replace edit in place, Move and the
\* inserts take the index they name, the children kept take the other places
\* in their old order.
ApplyChildren(oc, cd, ins) ==
    LET units == IF cd = None THEN [i \in 1..Len(oc) |-> Skip(1)]
                 ELSE UnitOps(Unwrap(cd))
    IN IF Len(units) # Len(oc) THEN <<Invalid>>
       ELSE
        LET kept == {i \in 1..Len(oc) : units[i].op \in {"Skip", "Update", "Replace"}}
            moved == {i \in 1..Len(oc) : units[i].op = "Move"}
            inserts == IF ins = None THEN <<>> ELSE Unwrap(ins)
            placed == {units[i].index : i \in moved}
                         \cup {inserts[k][1] : k \in 1..Len(inserts)}
            total == Cardinality(kept) + Cardinality(moved) + Len(inserts)
        IN IF Cardinality(placed) # Cardinality(moved) + Len(inserts)
              \/ \E x \in placed : x >= total
           THEN <<Invalid>>
           ELSE [pos \in 1..total |->
                   IF \E i \in moved : units[i].index = pos - 1
                   THEN LET i == CHOOSE i \in moved : units[i].index = pos - 1
                        IN ApplyNode(oc[i], units[i])
                   ELSE IF \E k \in 1..Len(inserts) : inserts[k][1] = pos - 1
                   THEN inserts[CHOOSE k \in 1..Len(inserts) : inserts[k][1] = pos - 1][2]
                   ELSE LET rank == pos - Cardinality({x \in placed : x < pos - 1})
                            i == CHOOSE i \in kept :
                                    Cardinality({j \in kept : j <= i}) = rank
                        IN ApplyNode(oc[i], units[i])]

(***************************************************************************)
(* The claims.                                                             *)
(***************************************************************************)
\* C1: for old and new trees with unique sibling keys, applying the patch
\* diff(old, new) to old with the renderer's semantics yields a tree equal to
\* new.
RoundTrip ==
    (Returned /\ ValidInput) => ApplyNode(old, result) = new

\* C2: diff(x, x') is Skip(1) whenever x' is structurally equal to x.
SameIsSkip ==
    (pc = "done" /\ old = new) => result = Skip(1)

\* C3: two Text nodes give Skip(1) when their contents are equal and
\* Replace(new) otherwise, at the root and for a text child aligned with a
\* text child under any element.
TextChildOk(c) ==
    \A i \in 1..Len(c.oldc) :
        LET j == Partner(c.oldc, c.newc, i)
        IN (Aligned(c) /\ j # 0 /\ c.oldc[i].type = "Text" /\ c.newc[j].type = "Text")
             => Units(c)[i] = IF c.oldc[i].content = c.newc[j].content
                              THEN Skip(1) ELSE Replace(c.newc[j])

TextDiff ==
    /\ (pc = "done" /\ old.type = "Text" /\ new.type = "Text")
          => result = IF old.content = new.content THEN Skip(1) ELSE Replace(new)
    /\ \A c \in Produced : TextChildOk(c)

\* C4: every old child consumed by a Skip of a ChildDiff, at any depth, is
\* structurally equal to the new child it is aligned with.
SkipMeansUnchanged ==
    (Returned /\ ValidInput) =>
        \A c \in Produced :
            Aligned(c) =>
                \A i \in 1..Len(c.oldc) :
                    Units(c)[i].op = "Skip"
                        => /\ Partner(c.oldc, c.newc, i) # 0
                           /\ c.oldc[i] = c.newc[Partner(c.oldc, c.newc, i)]

\* C5: in every ChildDiff, at any depth, the counts of Skip and Remove plus one
\* for each Update, Move and Replace add up to the number of old children.
OpsConsumeOldChildren ==
    \A c \in Produced :
        c.children # None => Len(UnitOps(Unwrap(c.children))) = Len(c.oldc)

\* A ChildDiff for four old children with a Remove of several children, a
\* Skip and a Move.
OpsConsumeOldChildrenWitness ==
    \E c \in Produced :
        /\ c.children # None
        /\ Len(c.oldc) >= 4
        /\ \E k \in 1..Len(Unwrap(c.children)) :
              Unwrap(c.children)[k].op = "Remove" /\ Unwrap(c.children)[k].n >= 2
        /\ \E k \in 1..Len(Unwrap(c.children)) : Unwrap(c.children)[k].op = "Skip"
        /\ \E k \in 1..Len(Unwrap(c.children)) : Unwrap(c.children)[k].op = "Move"

\* C6: every insert (i, n) names the i-th child of the new parent, and every
\* Move(i, ..) consuming an old child with key k names the place of the new
\* child with key k, counted in the parent's full new children list.
PositionsAreAbsolute ==
    (Returned /\ ValidInput) =>
        \A c \in Produced :
            /\ c.inserts # None =>
                  \A k \in 1..Len(Unwrap(c.inserts)) :
                      LET ins == Unwrap(c.inserts)[k]
                      IN ins[1] < Len(c.newc) /\ c.newc[ins[1] + 1] = ins[2]
            /\ Aligned(c) =>
                  \A i \in 1..Len(c.oldc) :
                      Units(c)[i].op = "Move"
                          => /\ Units(c)[i].index < Len(c.newc)
                             /\ NodeKey(c.newc[Units(c)[i].index + 1]) = NodeKey(c.oldc[i])

\* A keyed middle behind a common prefix with a Move and an insert.
PositionsAreAbsoluteWitness ==
    \E c \in Produced :
        /\ AlignedPrefix(c.oldc, c.newc) >= 1
        /\ Aligned(c) /\ Moves(c) # {}
        /\ c.inserts # None

\* C7: in every Inserts vector, at any depth, the indices increase strictly.
InsertsIncrease ==
    \A c \in Produced :
        c.inserts # None =>
            \A k \in 1..(Len(Unwrap(c.inserts)) - 1) :
                Unwrap(c.inserts)[k][1] < Unwrap(c.inserts)[k + 1][1]

\* Two inserts of a keyed middle with a surviving child between them.
InsertsIncreaseWitness ==
    \E c \in Produced :
        /\ c.inserts # None /\ KeyedMiddle(c)
        /\ \E k \in 1..(Len(Unwrap(c.inserts)) - 1) :
              Unwrap(c.inserts)[k][1] + 1 < Unwrap(c.inserts)[k + 1][1]

\* C8: in a keyed middle, the surviving old children whose op is not a Move
\* keep their relative order in the new list.
StayersInOrder ==
    (Returned /\ ValidInput) =>
        \A c \in Produced :
            (Aligned(c) /\ KeyedMiddle(c)) => InOrder(c, Survivors(c) \ Moves(c))

\* A keyed middle with a Move and two survivors that stay.
StayersInOrderWitness ==
    \E c \in Produced :
        /\ Aligned(c) /\ KeyedMiddle(c)
        /\ Moves(c) # {}
        /\ Cardinality(Survivors(c) \ Moves(c)) >= 2

\* C9: in a keyed middle the number of Move ops is the number of survivors
\* minus the length of a longest increasing subsequence of their old indices
\* read in new order; none when the survivors are in order.
MovesAreMinimal ==
    (Returned /\ ValidInput) =>
        \A c \in Produced :
            (Aligned(c) /\ KeyedMiddle(c))
                => Cardinality(Moves(c)) = Cardinality(Survivors(c)) - LongestInOrder(c)

\* A keyed middle of four survivors, two of which must move.
MovesAreMinimalWitness ==
    \E c \in Produced :
        /\ Aligned(c) /\ KeyedMiddle(c)
        /\ Cardinality(Survivors(c)) = 4
        /\ Cardinality(Moves(c)) = 2

\* C10: in every ChildDiff, at any depth, no two adjacent ops are both Skip
\* and no two are both Remove.
NoAdjacentSkipOrRemove ==
    \A c \in Produced :
        c.children # None =>
            \A k \in 1..(Len(Unwrap(c.children)) - 1) :
                ~(/\ Unwrap(c.children)[k].op \in {"Skip", "Remove"}
                  /\ Unwrap(c.children)[k + 1].op = Unwrap(c.children)[k].op)

\* A Skip that merges the common prefix with a child the keyed reconciler
\* skipped, followed by a Remove.
NoAdjacentSkipOrRemoveWitness ==
    \E c \in Produced :
        /\ Aligned(c) /\ KeyedMiddle(c)
        /\ AlignedPrefix(c.oldc, c.newc) >= 1
        /\ Unwrap(c.children)[1].op = "Skip"
        /\ Unwrap(c.children)[1].n > AlignedPrefix(c.oldc, c.newc)
        /\ Len(Unwrap(c.children)) >= 2
        /\ Unwrap(c.children)[2].op = "Remove"

(***************************************************************************)
(* diff on two roots (the tests different_vnode_types, different_velement_ *)
(* tags, same_tags_with_different_keys, same_tags_with_different_          *)
(* attributes of vdom/diff.rs): the roots are drawn from RootPool and diff *)
(* is called once.                                                         *)
(***************************************************************************)
\* The tag, key and children of a root.
RootShapes ==
    { div, p, WithKey(div, "c1"), WithKey(div, "c2"),
      WithText(div, "x"), WithChild(div, WithKey(p, "c1")) }

\* A root shape with any of two classes, an id that is absent, x or y, and an
\* attribute x that is absent or y.
RootPool ==
    { [e EXCEPT !.classes = cs, !.attributes = id \cup ax] :
        e \in RootShapes, cs \in SUBSET {"aaa", "bbb"},
        id \in {{}, {<<"id", "x">>}, {<<"id", "y">>}},
        ax \in {{}, {<<"x", "y">>}} }
    \cup {VText_new("x"), VText_new("y")}

RootInit ==
    /\ old \in RootPool
    /\ new \in RootPool
    /\ pc = "build"
    /\ result = NoResult
    /\ op_queue = OpQueue_new
    /\ pushed = <<>>
    /\ out = None
    /\ positions = <<>>
    /\ lis = None
    /\ element = None

RootNext == Diff

RootSpec == RootInit /\ [][RootNext]_vars

(***************************************************************************)
(* diff on two parents whose children lists are any lists of keyed and     *)
(* unkeyed children, repeats included.                                     *)
(***************************************************************************)
\* The longest children list of a parent.
MaxTrim == 3

\* The children: a text, an unkeyed element and two keyed elements.
TrimPool == { VText_new("x"), p, WithKey(p, "a"), WithKey(p, "b") }

\* The children lists of up to MaxTrim children.
TrimLists == UNION { [1..n -> TrimPool] : n \in 0..MaxTrim }

TrimInit ==
    /\ old \in { [div EXCEPT !.children = cs] : cs \in TrimLists }
    /\ new \in { [div EXCEPT !.children = cs] : cs \in TrimLists }
    /\ pc = "build"
    /\ result = NoResult
    /\ op_queue = OpQueue_new
    /\ pushed = <<>>
    /\ out = None
    /\ positions = <<>>
    /\ lis = None
    /\ element = None

TrimNext == Diff

TrimSpec == TrimInit /\ [][TrimNext]_vars

(***************************************************************************)
(* The builder of src/element.rs, whose VElement carries a void flag: a    *)
(* chain new(tag) or new_void(tag), then key, attr, class, class_list,     *)
(* child and text in any order, then done().                               *)
(***************************************************************************)
\* VElement::new(tag) of src/element.rs: void is false.
element_new(tagname) ==
    [type |-> "Element", tag |-> tagname, void |-> FALSE, key |-> None,
     attributes |-> {}, classes |-> {}, children |-> <<>>]

\* VElement::new_void(tag): void is true, the children vector is empty.
new_void(tagname) ==
    [type |-> "Element", tag |-> tagname, void |-> TRUE, key |-> None,
     attributes |-> {}, classes |-> {}, children |-> <<>>]

\* A class list is a sequence of words and whitespace; split_whitespace keeps
\* the words.
IsWord(w) == w # " "
split_whitespace(classes) == SelectSeq(classes, IsWord)

\* VElement::class_list(classes): inserts every word of the list.
WithClassList(e, classes) ==
    [e EXCEPT !.classes = e.classes \cup Range(split_whitespace(classes))]

\* The largest number of children a builder chain gives its element.
MaxBuilderChildren == 2

\* The class lists a chain passes to class_list.
ClassLists == { <<>>, <<" ", "aaa">>, <<"aaa", " ", " ", "bbb", " ">> }

\* The elements a chain passes to child.
BuilderChildren == { element_new("p"), new_void("br") }

BuilderInit ==
    /\ old = div
    /\ new = div
    /\ pc = "builder"
    /\ result = NoResult
    /\ op_queue = OpQueue_new
    /\ pushed = <<>>
    /\ out = None
    /\ positions = <<>>
    /\ lis = None
    /\ element \in {Some(element_new("div")), Some(new_void("br")), Some(new_void("img"))}

\* element = element.key(k)
BuilderKey ==
    /\ pc = "builder"
    /\ \E k \in {"c1", "c2"} : element' = Some(WithKey(Unwrap(element), k))
    /\ UNCHANGED <<old, new, pc, result, op_queue, pushed, out, positions, lis>>

\* element = element.attr(name, value)
BuilderAttr ==
    /\ pc = "builder"
    /\ \E v \in {"x", "y"} : element' = Some(WithAttr(Unwrap(element), "id", v))
    /\ UNCHANGED <<old, new, pc, result, op_queue, pushed, out, positions, lis>>

\* element = element.class(name)
BuilderClass ==
    /\ pc = "builder"
    /\ \E c \in {"aaa", "bbb"} : element' = Some(WithClass(Unwrap(element), c))
    /\ UNCHANGED <<old, new, pc, result, op_queue, pushed, out, positions, lis>>

\* element = element.class_list(classes)
BuilderClassList ==
    /\ pc = "builder"
    /\ \E cl \in ClassLists : element' = Some(WithClassList(Unwrap(element), cl))
    /\ UNCHANGED <<old, new, pc, result, op_queue, pushed, out, positions, lis>>

\* element = element.child(c)
BuilderChild ==
    /\ pc = "builder"
    /\ Len(Unwrap(element).children) < MaxBuilderChildren
    /\ \E c \in BuilderChildren : element' = Some(WithChild(Unwrap(element), c))
    /\ UNCHANGED <<old, new, pc, result, op_queue, pushed, out, positions, lis>>

\* element = element.text(t)
BuilderText ==
    /\ pc = "builder"
    /\ Len(Unwrap(element).children) < MaxBuilderChildren
    /\ element' = Some(WithText(Unwrap(element), "x"))
    /\ UNCHANGED <<old, new, pc, result, op_queue, pushed, out, positions, lis>>

\* element.done(): the element wrapped into VNode::Element
BuilderDone ==
    /\ pc = "builder"
    /\ pc' = "built"
    /\ UNCHANGED <<old, new, result, op_queue, pushed, out, element, positions, lis>>

BuilderNext ==
    \/ BuilderKey \/ BuilderAttr \/ BuilderClass \/ BuilderClassList
    \/ BuilderChild \/ BuilderText \/ BuilderDone

BuilderSpec == BuilderInit /\ [][BuilderNext]_vars

(***************************************************************************)
(* diff on two parents whose keyed children have children lists of their   *)
(* own, with unkeyed children among keyed ones.                            *)
(***************************************************************************)
\* The longest children list of a parent.
MaxNested == 2

\* The old children: c1 with a text before a keyed child, c2, and a text.
NestedOldPool ==
    { WithChild(WithText(WithKey(p, "c1"), "x"), WithKey(p, "a")),
      WithKey(p, "c2"),
      VText_new("x") }

\* The new children: c1 with a keyed child before a text, c3, and a text.
NestedNewPool ==
    { WithText(WithChild(WithKey(p, "c1"), WithKey(p, "b")), "x"),
      WithKey(p, "c3"),
      VText_new("x") }

NestedInit ==
    /\ old \in { [div EXCEPT !.children = cs] :
                   cs \in UNION { [1..n -> NestedOldPool] : n \in 0..MaxNested } }
    /\ new \in { [div EXCEPT !.children = cs] :
                   cs \in UNION { [1..n -> NestedNewPool] : n \in 0..MaxNested } }
    /\ pc = "build"
    /\ result = NoResult
    /\ op_queue = OpQueue_new
    /\ pushed = <<>>
    /\ out = None
    /\ element = None
    /\ positions = <<>>
    /\ lis = None

NestedNext == Diff

NestedSpec == NestedInit /\ [][NestedNext]_vars

(***************************************************************************)
(* diff on two parents of keyed children, a key occurring more than once.  *)
(***************************************************************************)
\* The longest children list of a parent.
MaxDuplicate == 3

\* The old children: a with an attribute, b and c.
DuplicateOldPool ==
    { WithAttr(WithKey(p, "a"), "id", "x"), WithKey(p, "b"), WithKey(p, "c") }

\* The new children: a with another attribute value, b, and d.
DuplicateNewPool ==
    { WithAttr(WithKey(p, "a"), "id", "y"), WithKey(p, "b"), WithKey(p, "d") }

DuplicateInit ==
    /\ old \in { [div EXCEPT !.children = cs] :
                   cs \in UNION { [1..n -> DuplicateOldPool] : n \in 0..MaxDuplicate } }
    /\ new \in { [div EXCEPT !.children = cs] :
                   cs \in UNION { [1..n -> DuplicateNewPool] : n \in 0..MaxDuplicate } }
    /\ pc = "build"
    /\ result = NoResult
    /\ op_queue = OpQueue_new
    /\ pushed = <<>>
    /\ out = None
    /\ element = None
    /\ positions = <<>>
    /\ lis = None

DuplicateNext == Diff

DuplicateSpec == DuplicateInit /\ [][DuplicateNext]_vars

(***************************************************************************)
(* positions_lis called on its own: on any vector of absent entries and    *)
(* distinct old indices.                                                   *)
(***************************************************************************)
\* The longest vector of positions.
MaxLis == 4

\* The vectors of up to MaxLis entries, each absent or an old index below
\* MaxLis, no old index twice.
LisInputs ==
    { v \in UNION { [1..n -> {None} \cup {Some(i) : i \in 0..(MaxLis - 1)}] :
                      n \in 0..MaxLis } :
        \A i, j \in 1..Len(v) : (i # j /\ v[i] # None) => v[i] # v[j] }

LisInit ==
    /\ old = div
    /\ new = div
    /\ pc = "lis"
    /\ result = NoResult
    /\ op_queue = OpQueue_new
    /\ pushed = <<>>
    /\ out = None
    /\ element = None
    /\ positions \in LisInputs
    /\ lis = None

\* lis = positions_lis(&positions)
Lis ==
    /\ pc = "lis"
    /\ lis' = Some(positions_lis(positions))
    /\ pc' = "lis_done"
    /\ UNCHANGED <<old, new, result, op_queue, pushed, out, element, positions>>

LisNext == Lis

LisSpec == LisInit /\ [][LisNext]_vars

(***************************************************************************)
(* OpQueue, stated on the history of the pushes.                           *)
(***************************************************************************)
Counted(op) == op.op \in {"Skip", "Remove"}

\* The ops of a push sequence with every maximal run of Skips, and of Removes,
\* folded from the right into one op with the sum of the counts.
RECURSIVE Coalesce(_)
Coalesce(ops) ==
    IF Len(ops) <= 1 THEN ops
    ELSE IF Counted(Head(ops)) /\ Head(Coalesce(Tail(ops))).op = Head(ops).op
         THEN <<[op |-> Head(ops).op, n |-> Head(ops).n + Head(Coalesce(Tail(ops))).n]>>
              \o Tail(Coalesce(Tail(ops)))
         ELSE <<Head(ops)>> \o Coalesce(Tail(ops))

AllSkips(ops) == \A i \in 1..Len(ops) : ops[i].op = "Skip"

\* remove_single_skip().done() returns the empty vector exactly when every
\* push was a Skip, and what done() alone returns otherwise.
StripThenDone ==
    pc = "stripped_flushed" =>
        Unwrap(out) = IF AllSkips(pushed) THEN <<>> ELSE Coalesce(pushed)

\* The children lists of the two roots are the same list.
SameChildren ==
    /\ old.type = "Element" /\ new.type = "Element"
    /\ old.tag = new.tag /\ old.key = new.key
    /\ old.children = new.children

\* C11: a children list in which nothing changed gives an absent ChildDiff
\* (the queue of its Skips is stripped to the empty vector), and no ChildDiff
\* is a single Skip.
UnchangedChildrenAbsent ==
    /\ (Returned /\ SameChildren) =>
           (result.op = "Update" => result.children = None)
    /\ \A c \in Produced :
           c.children # None =>
               ~(Len(Unwrap(c.children)) = 1 /\ Unwrap(c.children)[1].op = "Skip")

\* C12: the ops done() returns, with each Skip(n) and Remove(n) written as n
\* ops of count 1, are the pushed ops written the same way, in push order.
QueueKeepsOrder ==
    pc = "flushed" => UnitOps(Unwrap(out)) = UnitOps(pushed)

\* A pending Skip, then an op that flushes it, then a Remove left pending.
QueueKeepsOrderWitness ==
    /\ pc = "flushed"
    /\ Len(pushed) >= 3
    /\ pushed[1].op = "Skip"
    /\ ~Counted(pushed[2])
    /\ pushed[3].op = "Remove"

\* C13: done() returns the pushed ops with every maximal run of Skips, and of
\* Removes, as one op whose count is the sum of the counts of the run.
QueueCoalesces ==
    pc = "flushed" => Unwrap(out) = Coalesce(pushed)

\* A run of three Skips after an op that is neither a Skip nor a Remove.
QueueCoalescesWitness ==
    /\ pc = "flushed"
    /\ Len(pushed) = 4
    /\ ~Counted(pushed[1])
    /\ \A i \in 2..4 : pushed[i].op = "Skip"
    /\ Unwrap(out)[2] = Skip(pushed[2].n + pushed[3].n + pushed[4].n)

(***************************************************************************)
(* diff on two roots.                                                      *)
(***************************************************************************)
BothElements == old.type = "Element" /\ new.type = "Element"

\* Two elements that diff compares field by field.
SameTagAndKey == BothElements /\ old.tag = new.tag /\ old.key = new.key

\* C14: diff returns Replace of the new root when the roots are of different
\* kinds, or are elements with different tags, or with different keys.
ReplaceOnMismatch ==
    (pc = "done" /\ (\/ old.type # new.type
                     \/ BothElements /\ old.tag # new.tag
                     \/ BothElements /\ old.key # new.key))
        => result = Replace(new)

\* Two elements that differ in nothing but the key, one of them unkeyed.
ReplaceOnMismatchWitness ==
    /\ pc = "done" /\ BothElements
    /\ old.key # None /\ new.key = None
    /\ old = WithKey(new, Unwrap(old.key))
    /\ result = Replace(new)

\* C15: for two elements with equal tag and key diff returns Skip(1) when the
\* attribute diff, the child diff and the inserts are all absent and an Update
\* of the three otherwise; no Update has all three absent.
SkipOrUpdate ==
    (Returned /\ SameTagAndKey) =>
        /\ \E h \in HashOrders :
              IF /\ diff_attributes(old, new, h) = None
                 /\ diff_children(old, new, h).children = None
                 /\ diff_children(old, new, h).inserts = None
              THEN result = Skip(1)
              ELSE result = Update(diff_attributes(old, new, h),
                                   diff_children(old, new, h).children,
                                   diff_children(old, new, h).inserts)
        /\ result # Update(None, None, None)
        /\ result.op \in {"Skip", "Update"}

\* Two equal childless elements give Skip(1).
SkipOrUpdateWitness ==
    /\ pc = "done" /\ SameTagAndKey
    /\ old = new /\ old.classes # {} /\ old.attributes # {}
    /\ result = Skip(1)

\* The AttrOps the claim lists for the two roots.
ExpectedAttrOps ==
    {RemoveClassOp(c) : c \in old.classes \ new.classes}
    \cup {InsertClassOp(c) : c \in new.classes \ old.classes}
    \cup {AttrRemoveOp(k) : k \in AttrKeys(old.attributes) \ AttrKeys(new.attributes)}
    \cup {AttrInsertOp(a[1], a[2]) :
            a \in {b \in new.attributes : b[1] \notin AttrKeys(old.attributes)}}
    \cup {AttrUpdateOp(a[1], a[2]) :
            a \in {b \in new.attributes : /\ b[1] \in AttrKeys(old.attributes)
                                          /\ b \notin old.attributes}}

\* The AttrDiff of the patch diff returned.
ResultAttrs == IF result.op = "Update" THEN result.attr ELSE None

\* C16: the attribute diff holds the expected AttrOps, each once and nothing
\* else; it is absent exactly when classes and attributes are equal, and
\* applied to the old classes and attributes it gives the new ones.
AttrDiffExact ==
    (Returned /\ SameTagAndKey) =>
        /\ ResultAttrs = None <=>
              (old.classes = new.classes /\ old.attributes = new.attributes)
        /\ ResultAttrs # None =>
              /\ Range(Unwrap(ResultAttrs)) = ExpectedAttrOps
              /\ Len(Unwrap(ResultAttrs)) = Cardinality(ExpectedAttrOps)
        /\ ApplyAttrs(old, ResultAttrs).classes = new.classes
        /\ ApplyAttrs(old, ResultAttrs).attributes = new.attributes

\* A class removed, a class inserted, an attribute updated and one removed.
AttrDiffExactWitness ==
    /\ pc = "done" /\ SameTagAndKey
    /\ old.classes = {"aaa"} /\ new.classes = {"bbb"}
    /\ old.attributes = {<<"id", "x">>, <<"x", "y">>}
    /\ new.attributes = {<<"id", "y">>}
    /\ Len(Unwrap(ResultAttrs)) = 4

(***************************************************************************)
(* Totality.                                                               *)
(***************************************************************************)
\* No unkeyed child lies where both the old and the new middle are non-empty,
\* in any pair of children lists the diff aligns.
RECURSIVE KeyedMiddles(_, _)
KeyedMiddles(o, n) ==
    (/\ o.type = "Element" /\ n.type = "Element"
     /\ o.tag = n.tag /\ o.key = n.key) =>
        /\ (OldMiddle(o.children, n.children) # {}
              /\ NewMiddle(o.children, n.children) # {}) =>
                 /\ \A i \in OldMiddle(o.children, n.children) :
                       NodeKey(o.children[i]) # None
                 /\ \A j \in NewMiddle(o.children, n.children) :
                       NodeKey(n.children[j]) # None
        /\ \A i \in 1..Len(o.children) :
              Partner(o.children, n.children, i) # 0 =>
                  KeyedMiddles(o.children[i],
                               n.children[Partner(o.children, n.children, i)])

\* C17: for two trees with unique sibling keys and no unkeyed child where both
\* middles are non-empty, diff returns a NodeOp: no unwrap of an absent key, no
\* index out of bounds, and the prefix and suffix lengths the slices and
\* subtractions use stay within both lists.
TotalOnValidInput ==
    pc = "done" =>
        /\ result.op = "Panic" => ~(ValidInput /\ KeyedMiddles(old, new))
        /\ \A c \in Produced :
              (Len(c.oldc) > 0 /\ Len(c.newc) > 0) =>
                  prefix_loop(c.oldc, c.newc, 0, Min2(Len(c.oldc), Len(c.newc)))
                  + suffix_loop(c.oldc, c.newc, 0,
                        Min2(Len(c.oldc), Len(c.newc))
                        - prefix_loop(c.oldc, c.newc, 0, Min2(Len(c.oldc), Len(c.newc))))
                  <= Min2(Len(c.oldc), Len(c.newc))

\* An unkeyed child in the common prefix and a keyed middle with a move, for
\* which positions_lis ran.
TotalOnValidInputWitness ==
    /\ pc = "done" /\ ValidInput /\ KeyedMiddles(old, new)
    /\ \E c \in Produced :
          /\ Aligned(c) /\ KeyedMiddle(c) /\ Moves(c) # {}
          /\ AlignedPrefix(c.oldc, c.newc) >= 1
          /\ NodeKey(c.oldc[1]) = None

(***************************************************************************)
(* The builder.                                                            *)
(***************************************************************************)
\* C18: after any chain of builder operations a void element has no children.
VoidHasNoChildren ==
    (element # None /\ Unwrap(element).void) =>
        Len(Unwrap(element).children) = 0

(***************************************************************************)
(* The keyed middle without a move, and the trimming.                      *)
(***************************************************************************)
\* C19: in a keyed middle where no child moved, every old middle child whose
\* key occurs in the new middle gets the diff of itself against that new child.
UnmovedSurvivorsDiffed ==
    \A c \in Produced :
        (Aligned(c) /\ KeyedMiddle(c) /\ InOrder(c, Survivors(c))) =>
            \A i \in Survivors(c) :
                \E h \in HashOrders :
                    Units(c)[i] = diff(c.oldc[i], c.newc[Partner(c.oldc, c.newc, i)], h)

Unkeyed(children) == \A i \in 1..Len(children) : NodeKey(children[i]) = None

\* The trimming of two non-empty lists, prefix_len and suffix_len being what
\* the loops of diff_children count.
TrimOk(oc, nc, prefix_len, suffix_len) ==
    /\ prefix_len = AlignedPrefix(oc, nc)
    /\ suffix_len = AlignedSuffix(oc, nc)
    /\ prefix_len + suffix_len <= Min2(Len(oc), Len(nc))
    /\ Len(oc) - (prefix_len + suffix_len) >= 0
    /\ Len(nc) - (prefix_len + suffix_len) >= 0
    /\ (Unkeyed(oc) /\ Unkeyed(nc)) =>
          /\ \/ Len(oc) - (prefix_len + suffix_len) = 0
             \/ Len(nc) - (prefix_len + suffix_len) = 0
          /\ pc = "done" => result.op # "Panic"

TrimCounted(oc, nc, prefix_len) ==
    TrimOk(oc, nc, prefix_len,
        suffix_loop(oc, nc, 0, Min2(Len(oc), Len(nc)) - prefix_len))

\* C20: prefix_len is the longest run of equal keys from the heads, suffix_len
\* the longest from the tails within what the prefix left; they never overlap,
\* and two unkeyed lists leave a middle empty and never reach the keyed
\* reconciler.
TrimIsLongestRuns ==
    (Len(old.children) > 0 /\ Len(new.children) > 0) =>
        TrimCounted(old.children, new.children,
            prefix_loop(old.children, new.children, 0,
                        Min2(Len(old.children), Len(new.children))))

\* A text in the common prefix, a keyed child in the common suffix, and both
\* middles non-empty.
TrimIsLongestRunsWitness ==
    /\ pc = "done"
    /\ Len(old.children) = 3 /\ Len(new.children) = 3
    /\ AlignedPrefix(old.children, new.children) = 1
    /\ AlignedSuffix(old.children, new.children) = 1
    /\ old.children[1].type = "Text"
    /\ NodeKey(old.children[3]) # None

(***************************************************************************)
(* positions_lis.                                                          *)
(***************************************************************************)
\* The places (from 1) of the defined entries of the vector.
Defined(v) == {i \in 1..Len(v) : v[i] # None}

\* The sets of places whose entries increase with the place.
Increasing(v) ==
    {T \in SUBSET Defined(v) :
        \A i, j \in T : i < j => Unwrap(v[i]) < Unwrap(v[j])}

\* o is the entries of the places T, in array order.
ReadsPlaces(v, o, T) ==
    /\ Len(o) = Cardinality(T)
    /\ \A k \in 1..Len(o) :
          \E i \in T : /\ Unwrap(v[i]) = o[k]
                       /\ Cardinality({j \in T : j < i}) = k - 1

\* C25: positions_lis returns, for any vector of absent entries and distinct
\* old indices, a strictly increasing subsequence of the defined entries of
\* the greatest possible length.
LisIsLongest ==
    pc = "lis_done" =>
        /\ ~Unwrap(lis).panic
        /\ \E T \in Increasing(positions) :
              /\ ReadsPlaces(positions, Unwrap(lis).o, T)
              /\ \A U \in Increasing(positions) : Cardinality(U) <= Cardinality(T)

(***************************************************************************)
(* The middles with one side empty.                                        *)
(***************************************************************************)
\* The ops of the root's ChildDiff, none when it is absent.
RootOps ==
    IF result.op = "Update" /\ result.children # None
    THEN Unwrap(result.children) ELSE <<>>

\* The root's inserts, none when they are absent.
RootInserts ==
    IF result.op = "Update" /\ result.inserts # None
    THEN Unwrap(result.inserts) ELSE <<>>

\* C21: when the new middle is empty and the old middle has m > 0 children,
\* those m children are consumed by one Remove(m) between the ops of the prefix
\* and of the suffix, and nothing is inserted; with no new child at all the
\* ChildDiff is [Remove(L)].
RemovalSide ==
    (/\ pc = "done"
     /\ OldMiddle(old.children, new.children) # {}
     /\ NewMiddle(old.children, new.children) = {}) =>
        /\ result.op = "Update"
        /\ result.inserts = None
        /\ Len(UnitOps(RootOps)) = Len(old.children)
        /\ \A i \in 1..Len(old.children) :
              UnitOps(RootOps)[i].op = "Remove"
                  <=> i \in OldMiddle(old.children, new.children)
        /\ Cardinality({k \in 1..Len(RootOps) : RootOps[k].op = "Remove"}) = 1
        /\ \E k \in 1..Len(RootOps) :
              RootOps[k] = Remove(Cardinality(OldMiddle(old.children, new.children)))
        /\ Len(new.children) = 0 => RootOps = <<Remove(Len(old.children))>>

\* One old child removed between a common prefix and a common suffix.
RemovalSideWitness ==
    /\ pc = "done"
    /\ Len(old.children) = 3 /\ Len(new.children) = 2
    /\ AlignedPrefix(old.children, new.children) = 1
    /\ AlignedSuffix(old.children, new.children) = 1
    /\ Len(RootOps) = 3 /\ RootOps[2] = Remove(1)

\* C22: when the old middle is empty and the new middle has k > 0 children,
\* the inserts are those k children at indices prefix_len .. prefix_len + k - 1
\* in order, and no child op stands for them; with no old child at all the
\* ChildDiff is absent.
InsertionSide ==
    (/\ pc = "done"
     /\ OldMiddle(old.children, new.children) = {}
     /\ NewMiddle(old.children, new.children) # {}) =>
        /\ result.op = "Update"
        /\ RootInserts =
              [j \in 1..Cardinality(NewMiddle(old.children, new.children)) |->
                  <<AlignedPrefix(old.children, new.children) + j - 1,
                    new.children[AlignedPrefix(old.children, new.children) + j]>>]
        /\ RootOps # <<>> => Len(UnitOps(RootOps)) = Len(old.children)
        /\ \A k \in 1..Len(RootOps) : RootOps[k].op \notin {"Remove", "Move"}
        /\ Len(old.children) = 0 => result.children = None

\* Two new children inserted behind a common prefix.
InsertionSideWitness ==
    /\ pc = "done"
    /\ Len(old.children) = 1 /\ Len(new.children) = 3
    /\ AlignedPrefix(old.children, new.children) = 1
    /\ Len(RootInserts) = 2 /\ RootInserts[1][1] = 1 /\ RootInserts[2][1] = 2

(***************************************************************************)
(* The keyed middle: what is removed, inserted and moved.                  *)
(***************************************************************************)
\* The new middle children (places from 1) whose key is in no old middle child.
Newcomers(c) ==
    {j \in NewMiddle(c.oldc, c.newc) :
        \A i \in OldMiddle(c.oldc, c.newc) : NodeKey(c.oldc[i]) # NodeKey(c.newc[j])}

\* The inserts of a context, none when they are absent.
Inserts(c) == IF c.inserts = None THEN <<>> ELSE Unwrap(c.inserts)

\* C23: in a keyed middle with unique keys an old child is consumed by a
\* Remove exactly when its key is not in the new middle, the inserts are the
\* new children whose key is not in the old middle, each once at its absolute
\* index, and new length = old length - removed + inserted.
MiddleConserves ==
    (Returned /\ ValidInput) =>
        \A c \in Produced :
            (Aligned(c) /\ KeyedMiddle(c)) =>
                /\ \A i \in OldMiddle(c.oldc, c.newc) :
                      Units(c)[i].op = "Remove" <=> i \notin Survivors(c)
                /\ Len(Inserts(c)) = Cardinality(Newcomers(c))
                /\ \A j \in Newcomers(c) :
                      \E k \in 1..Len(Inserts(c)) : Inserts(c)[k] = <<j - 1, c.newc[j]>>
                /\ Len(c.newc) =
                      Len(c.oldc)
                      - Cardinality({i \in 1..Len(c.oldc) : Units(c)[i].op = "Remove"})
                      + Len(Inserts(c))

\* A keyed middle behind a common prefix where one child is replaced by
\* another: as many removed as inserted, and a survivor.
MiddleConservesWitness ==
    \E c \in Produced :
        /\ Aligned(c) /\ KeyedMiddle(c)
        /\ AlignedPrefix(c.oldc, c.newc) >= 1
        /\ Len(c.oldc) = Len(c.newc)
        /\ Cardinality(Newcomers(c)) = 1
        /\ Survivors(c) # {}

\* The Move the code plans for a diff d of a child found at place j (from 1).
MoveOf(j, d) ==
    IF d.op = "Update" THEN Move(j - 1, d.attr, d.children, d.inserts)
    ELSE Move(j - 1, None, None, None)

MalformedAtRoot ==
    /\ OldMiddle(old.children, new.children) # {}
    /\ NewMiddle(old.children, new.children) # {}
    /\ \/ \E i \in OldMiddle(old.children, new.children) :
             NodeKey(old.children[i]) = None
       \/ \E j \in NewMiddle(old.children, new.children) :
             NodeKey(new.children[j]) = None

\* diff aborts on the lists diff_middles is handed.
MalformedAbortsAtRoot ==
    (pc = "done" /\ MalformedAtRoot) => result.op = "Panic"

\* C26: whenever an unkeyed child lies in the old or new middle of two
\* children lists whose middles are both non-empty, at any depth of two trees
\* with unique sibling keys, diff aborts and returns no patch.
MalformedAborts ==
    (pc = "done" /\ ValidInput /\ ~KeyedMiddles(old, new)) => result.op = "Panic"

(***************************************************************************)
(* Duplicate keys in the new middle.                                       *)
(***************************************************************************)
\* Two children of the roots' new middle have the same key.
DuplicateInNewMiddle ==
    \E j1, j2 \in NewMiddle(old.children, new.children) :
        /\ j1 < j2
        /\ NodeKey(new.children[j1]) # None
        /\ NodeKey(new.children[j1]) = NodeKey(new.children[j2])

\* The place (from 1) of the last child of the new middle with the key of old
\* child i; 0 when there is none.
LastWithKey(i) ==
    LET found == {j \in NewMiddle(old.children, new.children) :
                     NodeKey(new.children[j]) = NodeKey(old.children[i])}
    IN IF found = {} THEN 0 ELSE CHOOSE j \in found : \A j2 \in found : j2 <= j

\* The old middle children whose key occurs in the new middle.
Matched == {i \in OldMiddle(old.children, new.children) : LastWithKey(i) # 0}

\* The places of the new middle that hold an earlier duplicate of the key of
\* a matched old child.
EarlierDuplicates ==
    {j \in NewMiddle(old.children, new.children) :
        \E i \in Matched :
            /\ NodeKey(new.children[j]) = NodeKey(old.children[i])
            /\ j < LastWithKey(i)}

\* The roots' children are keyed and the old keys are unique.
DuplicateInput ==
    /\ pc = "done"
    /\ UniqueSiblingKeys(old)
    /\ \A i \in 1..Len(old.children) : NodeKey(old.children[i]) # None
    /\ \A j \in 1..Len(new.children) : NodeKey(new.children[j]) # None
    /\ DuplicateInNewMiddle

\* The root's ChildDiff with one op per old child, an absent ChildDiff being
\* a Skip of every old child.
DuplicateUnits ==
    IF result.op = "Update" /\ result.children # None
    THEN UnitOps(RootOps)
    ELSE [i \in 1..Len(old.children) |-> Skip(1)]

\* diff returns, and the ChildDiff consumes the old children.
DuplicateReturns ==
    DuplicateInput =>
        /\ result.op = "Update"
        /\ Len(DuplicateUnits) = Len(old.children)

\* The earlier duplicates are inserted at their own index.
DuplicateInserted ==
    DuplicateInput =>
        \A j \in EarlierDuplicates : <<j - 1, new.children[j]>> \in Range(RootInserts)

\* A matched old child that moves is moved to the last occurrence of its key
\* with the diff against it, and one that stays is never moved elsewhere.
DuplicateMovedToLast ==
    (DuplicateInput /\ DuplicateReturns) =>
        \A i \in Matched :
            \E h \in HashOrders :
                DuplicateUnits[i].op = "Move" =>
                    DuplicateUnits[i] =
                        MoveOf(LastWithKey(i),
                               diff(old.children[i], new.children[LastWithKey(i)], h))

\* Where some matched old child moves, one that stays gets its diff against
\* the last new child with its key.
DuplicateStayersDiffedWhereMoved ==
    (DuplicateInput /\ \E i \in Matched : DuplicateUnits[i].op = "Move") =>
        \A i \in Matched :
            \E h \in HashOrders :
                DuplicateUnits[i].op # "Move" =>
                    DuplicateUnits[i] =
                        diff(old.children[i], new.children[LastWithKey(i)], h)

\* C27: with duplicate keys in the new middle and unique old keys, diff
\* returns, the ChildDiff consumes the old children, every earlier duplicate
\* of a matched key is inserted at its own index, and a matched old child gets
\* its diff against the last new child with its key, in place or in a Move to
\* the index of that child.
DuplicateKeysLastWins ==
    DuplicateInput =>
        /\ DuplicateReturns
        /\ DuplicateInserted
        /\ \A i \in Matched :
              \E h \in HashOrders :
                  LET d == diff(old.children[i], new.children[LastWithKey(i)], h)
                  IN DuplicateUnits[i] \in {d, MoveOf(LastWithKey(i), d)}

=============================================================================
